---- MODULE Spec2Model ----
(***************************************************************************)
(* Model of the republica_facil backend: members, rooms, expenses and      *)
(* payments kept in a relational store and changed by HTTP handlers.       *)
(*                                                                         *)
(* The store is modelled table by table, a table being a function from the *)
(* primary keys of its rows to records of the columns the handlers read or *)
(* write.  The schema is the one at the head of src/migrations (membros    *)
(* has the columns ativo and data_saida, quarto_id is nullable, email and  *)
(* telephone carry no unique constraint).  Python's None / SQL NULL is the *)
(* value NULL.  valor_total / num_membros is a float division; it is       *)
(* modelled by the exact quotient, a reduced fraction <<num, den>>, so the *)
(* rounding error of the float is the one thing left out.                  *)
(***************************************************************************)
EXTENDS Integers, Sequences, FiniteSets, TLC

VARIABLES
    users,        \* table users:      id -> [email, password]
    redis,        \* redis_client: whether it is connected, and its keys
                  \*   reset_code:{email} -> code
    republicas,   \* table republicas: id -> [user_id]
    quartos,      \* table quartos:    id -> [numero, republica_id]
    membros,      \* table membros:    id -> [email, telephone, republica_id,
                  \*                          quarto_id, ativo, data_saida]
    despesas,     \* table despesas:   id -> [valor_total, republica_id, status]
    pagamentos,   \* table pagamentos: id -> [membro_id, despesa_id, valor_pago]
    seq,          \* the primary-key sequences of the tables
    clock,        \* the value the next datetime.now() returns
    resp,         \* the response of the last request that returned
    reqs          \* requests in flight: slot -> position and local variables

vars == <<users, redis, republicas, quartos, membros, despesas, pagamentos,
          seq, clock, resp, reqs>>

db == <<users, redis, republicas, quartos, membros, despesas, pagamentos,
        seq, clock>>

----------------------------------------------------------------------------
\* Bounds of the model.
MaxMembros == 2
MaxQuartos == 2
MaxDespesas == 1
MaxPagamentos == 3
MaxClock == 2
MaxValor == 2
MaxMoradores == 3
MaxNumero == 2
MaxPagina == 2
MaxCodigo == 2
MaxSenha == 9

\* Values of the program.
NULL == 0
HTTP_OK == 200
HTTP_CREATED == 201
HTTP_BAD_REQUEST == 400
HTTP_UNAUTHORIZED == 401
HTTP_NOT_FOUND == 404
HTTP_CONFLICT == 409
HTTP_INTERNAL_SERVER_ERROR == 500
HTTP_UNPROCESSABLE_CONTENT == 422
HTTP_SERVICE_UNAVAILABLE == 503
MIN_LEN == 8

VENCIDA == "vencida"
PENDENTE == "pendente"
PAGO == "pago"

\* The callers and the ids requests are made with.  House 3 does not exist;
\* an id of the other tables is "no such row" until the row is created (and
\* again after it is deleted).
Users == {1, 2}
RepublicaIds == {1, 2, 3}
MembroIds == 1..MaxMembros
QuartoIds == 1..MaxQuartos
DespesaIds == 1..MaxDespesas
Contacts == 1..MaxMembros
Valores == {100 * v : v \in 1..MaxValor}
Slots == {1, 2}
Numeros == 1..MaxNumero
Paginas == 0..MaxPagina
\* e-mail addresses: those of the users and one that is not registered
Emails == Users \cup {3}
Codes == 1..MaxCodigo

----------------------------------------------------------------------------
\* Arithmetic of the amounts.
RECURSIVE GCD(_, _)
GCD(a, b) == IF b = 0 THEN a ELSE GCD(b, a % b)

\* a / b  (b > 0), as a reduced fraction
Quot(a, b) == <<a \div GCD(a, b), b \div GCD(a, b)>>

RatAdd(x, y) == Quot(x[1] * y[2] + y[1] * x[2], x[2] * y[2])

RECURSIVE RatSum(_, _)
RatSum(f, S) ==
    IF S = {} THEN <<0, 1>>
    ELSE LET i == CHOOSE j \in S : TRUE
         IN  RatAdd(f[i], RatSum(f, S \ {i}))

----------------------------------------------------------------------------
\* The tables.
Put(t, id, row) == [i \in DOMAIN t \cup {id} |-> IF i = id THEN row ELSE t[i]]

Drop(t, ids) == [i \in DOMAIN t \ ids |-> t[i]]

EmptyTable == [i \in {} |-> NULL]

Idle == [pc |-> "idle"]

NoResp == [op |-> "none", status |-> 0, detail |-> "", id |-> NULL]

\* status code, detail of the HTTPException or message, id of the row created
Resp(op, status, detail, id) ==
    [op |-> op, status |-> status, detail |-> detail, id |-> id]

\* Passwords, by the features verify_strong_password looks at.
Senha(len, upper, lower, digit, special) ==
    [len |-> len, upper |-> upper, lower |-> lower, digit |-> digit,
     special |-> special]

SenhaInicial == Senha(MIN_LEN, TRUE, TRUE, TRUE, TRUE)

\* pwd_context.hash: the stored value is not the password
get_password_hash(password) == <<"hash", password>>

\* the user with id u registers with the email u
new_user(u, password) ==
    [email |-> u, password |-> get_password_hash(password)]

\* Init: two users each own one house; every other table is empty.
Init ==
    /\ users = [u \in Users |-> new_user(u, SenhaInicial)]
    /\ redis = [client |-> TRUE, codes |-> EmptyTable]
    /\ republicas = [h \in {1, 2} |-> [user_id |-> h]]
    /\ quartos = EmptyTable
    /\ membros = EmptyTable
    /\ despesas = EmptyTable
    /\ pagamentos = EmptyTable
    /\ seq = [membros |-> 0, quartos |-> 0, despesas |-> 0, pagamentos |-> 0]
    /\ clock = 1
    /\ resp = NoResp
    /\ reqs = [s \in Slots |-> Idle]


----------------------------------------------------------------------------
\* Queries of the handlers.
Err(status, detail) == [status |-> status, detail |-> detail]

\* (the ativo filter left out)
membro_com_email_any(email, except) ==
    \E m \in DOMAIN membros \ {except} : membros[m].email = email

\* select(Membro).where(Membro.email == email, Membro.ativo == True)
membro_com_email(email, except) ==
    \E m \in DOMAIN membros \ {except} :
        membros[m].email = email /\ membros[m].ativo

\* (the telephone check left out)
membro_com_telefone_omitted(tel, except) == FALSE

\* select(Membro).where(Membro.telephone == tel, Membro.ativo == True)
membro_com_telefone(tel, except) ==
    \E m \in DOMAIN membros \ {except} :
        membros[m].telephone = tel /\ membros[m].ativo

\* select(Membro).where(Membro.quarto_id == q, Membro.ativo == True)
membro_existente(q, except) ==
    \E m \in DOMAIN membros \ {except} :
        membros[m].quarto_id = q /\ membros[m].ativo

\* (the duplicate check left out)
pagamento_existente_omitted(m, d) == FALSE

\* select(Pagamento).where(membro_id == m, despesa_id == d)
pagamento_existente(m, d) ==
    \E p \in DOMAIN pagamentos :
        pagamentos[p].membro_id = m /\ pagamentos[p].despesa_id = d

\* (only the active rows counted)
num_membros_ativos(h) ==
    Cardinality({m \in DOMAIN membros :
                    membros[m].republica_id = h /\ membros[m].ativo})

\* select(func.count(Membro.id)).where(Membro.republica_id == h)
num_membros(h) ==
    Cardinality({m \in DOMAIN membros : membros[m].republica_id = h})

\* select(func.count(Pagamento.id)).where(Pagamento.despesa_id == d)
num_pagamentos(pags, d) ==
    Cardinality({p \in DOMAIN pags : pags[p].despesa_id = d})

\* valor_por_membro = db_despesa.valor_total / num_membros
valor_por_membro(valor_total, n) == Quot(valor_total, n)

\* if num_pagamentos >= num_membros: db_despesa.status = PAGO
status_apos_pagamento(status, n_pag, n_mem) ==
    IF n_pag >= n_mem THEN PAGO ELSE status

----------------------------------------------------------------------------
\* POST /membros/{republica_id}
create_member_check(u, h, email, tel, q) ==
    IF h \notin DOMAIN republicas
    THEN Err(HTTP_NOT_FOUND, "Republica nao encontrada")
    ELSE IF republicas[h].user_id # u
    THEN Err(HTTP_UNAUTHORIZED, "Permissoes negadas")
    ELSE IF membro_com_email(email, NULL)
    THEN Err(HTTP_CONFLICT, "Membro ja existe")
    ELSE IF membro_com_telefone(tel, NULL)
    THEN Err(HTTP_CONFLICT, "Membro ja existe")
    ELSE IF q # NULL /\ q \notin DOMAIN quartos
    THEN Err(HTTP_NOT_FOUND, "Quarto nao encontrado")
    ELSE IF q # NULL /\ quartos[q].republica_id # h
    THEN Err(HTTP_BAD_REQUEST, "Quarto nao pertence a esta republica")
    ELSE IF q # NULL /\ membro_existente(q, NULL)
    THEN Err(HTTP_CONFLICT, "Este quarto ja esta ocupado")
    ELSE Err(HTTP_CREATED, "")

new_member(h, email, tel, q) ==
    [email |-> email, telephone |-> tel, republica_id |-> h,
     quarto_id |-> q, ativo |-> TRUE, data_saida |-> NULL]

create_member(u, h, email, tel, q) ==
    LET r == create_member_check(u, h, email, tel, q)
        id == seq.membros + 1
    IN  /\ IF r.status = HTTP_CREATED
           THEN /\ seq.membros < MaxMembros
                /\ membros' = Put(membros, id, new_member(h, email, tel, q))
                /\ seq' = [seq EXCEPT !.membros = id]
                /\ resp' = Resp("create_member", r.status, r.detail, id)
                /\ UNCHANGED <<users, redis, republicas, quartos, despesas, pagamentos,
                               clock, reqs>>
           ELSE /\ resp' = Resp("create_member", r.status, r.detail, NULL)
                /\ UNCHANGED <<db, reqs>>

\* DELETE /membros/{republica_id}/{member_id}  (soft delete)
delete_member_check(u, h, m) ==
    IF h \notin DOMAIN republicas
    THEN Err(HTTP_NOT_FOUND, "Republica nao encontrada")
    ELSE IF republicas[h].user_id # u
    THEN Err(HTTP_UNAUTHORIZED, "Permissoes negadas")
    ELSE IF ~(m \in DOMAIN membros /\ membros[m].republica_id = h)
    THEN Err(HTTP_NOT_FOUND, "Republica nao encontrada")
    ELSE Err(HTTP_OK, "Membro excluido")

\* (the room link left in place)
soft_delete_keeps_room(row, now) ==
    [row EXCEPT !.ativo = FALSE, !.data_saida = now]

soft_delete(row, now) ==
    [row EXCEPT !.ativo = FALSE, !.data_saida = now, !.quarto_id = NULL]

delete_member(u, h, m) ==
    LET r == delete_member_check(u, h, m)
    IN  /\ resp' = Resp("delete_member", r.status, r.detail, NULL)
        /\ IF r.status = HTTP_OK
           THEN /\ clock <= MaxClock
                /\ membros' = [membros EXCEPT ![m] = soft_delete(@, clock)]
                /\ clock' = clock + 1
                /\ UNCHANGED <<users, redis, republicas, quartos, despesas, pagamentos,
                               seq, reqs>>
           ELSE UNCHANGED <<db, reqs>>

----------------------------------------------------------------------------
\* The checks the /despesas handlers start with.
despesa_check(u, h, d) ==
    IF h \notin DOMAIN republicas
    THEN Err(HTTP_NOT_FOUND, "Republica nao encontrada")
    ELSE IF republicas[h].user_id # u
    THEN Err(HTTP_UNAUTHORIZED, "Permissoes negadas")
    ELSE IF d # NULL /\ ~(d \in DOMAIN despesas /\ despesas[d].republica_id = h)
    THEN Err(HTTP_NOT_FOUND, "Despesa nao encontrada")
    ELSE Err(HTTP_OK, "")

\* POST /despesas/{republica_id}
create_despesa(u, h, valor) ==
    LET r == despesa_check(u, h, NULL)
        id == seq.despesas + 1
    IN  /\ IF r.status = HTTP_OK
           THEN /\ seq.despesas < MaxDespesas
                /\ despesas' = Put(despesas, id,
                       [valor_total |-> valor, republica_id |-> h,
                        status |-> PENDENTE])
                /\ seq' = [seq EXCEPT !.despesas = id]
                /\ resp' = Resp("create_despesa", HTTP_CREATED, "", id)
                /\ UNCHANGED <<users, redis, republicas, quartos, membros, pagamentos,
                               clock, reqs>>
           ELSE /\ resp' = Resp("create_despesa", r.status, r.detail, NULL)
                /\ UNCHANGED <<db, reqs>>

\* (the status put back to its default by the update)
update_despesa_reset(u, h, d, valor) ==
    LET r == despesa_check(u, h, d)
    IN  /\ resp' = Resp("update_despesa", r.status, r.detail, NULL)
        /\ IF r.status = HTTP_OK
           THEN /\ despesas' = [despesas EXCEPT ![d].valor_total = valor,
                                                ![d].status = PENDENTE]
                /\ UNCHANGED <<users, redis, republicas, quartos, membros, pagamentos,
                               seq, clock, reqs>>
           ELSE UNCHANGED <<db, reqs>>

\* PATCH /despesas/{republica_id}/{despesa_id}
update_despesa(u, h, d, valor) ==
    LET r == despesa_check(u, h, d)
    IN  /\ resp' = Resp("update_despesa", r.status, r.detail, NULL)
        /\ IF r.status = HTTP_OK
           THEN /\ despesas' = [despesas EXCEPT ![d].valor_total = valor]
                /\ UNCHANGED <<users, redis, republicas, quartos, membros, pagamentos,
                               seq, clock, reqs>>
           ELSE UNCHANGED <<db, reqs>>

\* DELETE /despesas/{republica_id}/{despesa_id}; Despesa.pagamentos is
\* cascade='all, delete-orphan', so the payments of the expense go with it.
delete_despesa(u, h, d) ==
    LET r == despesa_check(u, h, d)
    IN  /\ resp' = Resp("delete_despesa", r.status,
                        IF r.status = HTTP_OK
                        THEN "Despesa excluida com sucesso" ELSE r.detail, NULL)
        /\ IF r.status = HTTP_OK
           THEN /\ despesas' = Drop(despesas, {d})
                /\ pagamentos' = Drop(pagamentos,
                       {p \in DOMAIN pagamentos : pagamentos[p].despesa_id = d})
                /\ UNCHANGED <<users, redis, republicas, quartos, membros, seq, clock, reqs>>
           ELSE UNCHANGED <<db, reqs>>

\* POST /despesas/{republica_id}/{despesa_id}/pagamento
registrar_pagamento_check(u, h, d, m) ==
    IF despesa_check(u, h, d).status # HTTP_OK
    THEN despesa_check(u, h, d)
    ELSE IF despesas[d].status = PAGO
    THEN Err(HTTP_BAD_REQUEST, "Despesa ja esta marcada como paga")
    ELSE IF m \notin DOMAIN membros
    THEN Err(HTTP_NOT_FOUND, "Membro nao encontrado")
    ELSE IF membros[m].republica_id # h
    THEN Err(HTTP_BAD_REQUEST, "Membro nao pertence a esta republica")
    ELSE IF pagamento_existente(m, d)
    THEN Err(HTTP_CONFLICT, "ja pagou esta despesa")
    ELSE IF num_membros(h) = 0
    THEN Err(HTTP_BAD_REQUEST, "Republica nao tem membros cadastrados")
    ELSE Err(HTTP_CREATED, "")

registrar_pagamento(u, h, d, m) ==
    LET r == registrar_pagamento_check(u, h, d, m)
        id == seq.pagamentos + 1
        n == num_membros(h)
        novo == [membro_id |-> m, despesa_id |-> d,
                 valor_pago |-> valor_por_membro(despesas[d].valor_total, n)]
        pags == Put(pagamentos, id, novo)
    IN  /\ IF r.status = HTTP_CREATED
           THEN /\ seq.pagamentos < MaxPagamentos
                /\ pagamentos' = pags
                /\ seq' = [seq EXCEPT !.pagamentos = id]
                /\ despesas' = [despesas EXCEPT ![d].status =
                       status_apos_pagamento(@, num_pagamentos(pags, d), n)]
                /\ resp' = Resp("registrar_pagamento", r.status, r.detail, id)
                /\ UNCHANGED <<users, redis, republicas, quartos, membros, clock, reqs>>
           ELSE /\ resp' = Resp("registrar_pagamento", r.status, r.detail, NULL)
                /\ UNCHANGED <<db, reqs>>

----------------------------------------------------------------------------
\* The ledger: members join and leave, expenses are created, edited and
\* deleted, payments are registered; one request at a time.
Next ==
    \/ \E u \in Users, h \in RepublicaIds, c \in Contacts :
           create_member(u, h, c, c, NULL)
    \/ \E u \in Users, h \in RepublicaIds, m \in MembroIds :
           delete_member(u, h, m)
    \/ \E u \in Users, h \in RepublicaIds, v \in Valores :
           create_despesa(u, h, v)
    \/ \E u \in Users, h \in RepublicaIds, d \in DespesaIds, v \in Valores :
           update_despesa(u, h, d, v)
    \/ \E u \in Users, h \in RepublicaIds, d \in DespesaIds :
           delete_despesa(u, h, d)
    \/ \E u \in Users, h \in RepublicaIds, d \in DespesaIds, m \in MembroIds :
           registrar_pagamento(u, h, d, m)

Spec == Init /\ [][Next]_vars

----------------------------------------------------------------------------
\* PUT /membros/{republica_id}/{member_id}
update_member_check(u, h, m, email, tel, q) ==
    IF h \notin DOMAIN republicas
    THEN Err(HTTP_NOT_FOUND, "Republica nao encontrada")
    ELSE IF republicas[h].user_id # u
    THEN Err(HTTP_UNAUTHORIZED, "Permissoes negadas")
    ELSE IF ~(m \in DOMAIN membros /\ membros[m].republica_id = h)
    THEN Err(HTTP_NOT_FOUND, "Republica nao encontrada")
    ELSE IF email # membros[m].email /\ membro_com_email(email, m)
    THEN Err(HTTP_CONFLICT, "Membro ja existe")
    ELSE IF tel # membros[m].telephone /\ membro_com_telefone(tel, m)
    THEN Err(HTTP_CONFLICT, "Membro ja existe")
    ELSE IF q = membros[m].quarto_id \/ q = NULL
    THEN Err(HTTP_OK, "")
    ELSE IF q \notin DOMAIN quartos
    THEN Err(HTTP_NOT_FOUND, "Quarto nao encontrado")
    ELSE IF quartos[q].republica_id # h
    THEN Err(HTTP_BAD_REQUEST, "Quarto nao pertence a esta republica")
    ELSE IF membro_existente(q, m)
    THEN Err(HTTP_CONFLICT, "Este quarto ja esta ocupado")
    ELSE Err(HTTP_OK, "")

update_member(u, h, m, email, tel, q) ==
    LET r == update_member_check(u, h, m, email, tel, q)
    IN  /\ resp' = Resp("update_member", r.status, r.detail, NULL)
        /\ IF r.status = HTTP_OK
           THEN /\ membros' = [membros EXCEPT ![m].email = email,
                                              ![m].telephone = tel,
                                              ![m].quarto_id = q]
                /\ UNCHANGED <<users, redis, republicas, quartos, despesas, pagamentos,
                               seq, clock, reqs>>
           ELSE UNCHANGED <<db, reqs>>

----------------------------------------------------------------------------
\* UniqueConstraint('numero', 'republica_id') of table quartos
numero_em_uso(numero, h, except) ==
    \E q \in DOMAIN quartos \ {except} :
        quartos[q].numero = numero /\ quartos[q].republica_id = h

\* The checks the /quartos handlers that take republica_id start with.
quarto_check(u, h, q) ==
    IF h \notin DOMAIN republicas
    THEN Err(HTTP_NOT_FOUND, "Republica nao encontrada")
    ELSE IF republicas[h].user_id # u
    THEN Err(HTTP_UNAUTHORIZED, "Permissoes negadas")
    ELSE IF q # NULL /\ q \notin DOMAIN quartos
    THEN Err(HTTP_NOT_FOUND, "Quartos nao encontrados")
    ELSE Err(HTTP_OK, "")

\* POST /quartos/
create_quarto(u, h, numero) ==
    LET r == quarto_check(u, h, NULL)
        id == seq.quartos + 1
    IN  /\ IF r.status # HTTP_OK
           THEN /\ resp' = Resp("create_quarto", r.status, r.detail, NULL)
                /\ UNCHANGED <<db, reqs>>
           ELSE IF numero_em_uso(numero, h, NULL)
           THEN /\ resp' = Resp("create_quarto", HTTP_INTERNAL_SERVER_ERROR,
                                "IntegrityError", NULL)
                /\ UNCHANGED <<db, reqs>>
           ELSE /\ seq.quartos < MaxQuartos
                /\ quartos' = Put(quartos, id,
                                  [numero |-> numero, republica_id |-> h])
                /\ seq' = [seq EXCEPT !.quartos = id]
                /\ resp' = Resp("create_quarto", HTTP_CREATED, "", id)
                /\ UNCHANGED <<users, redis, republicas, membros, despesas, pagamentos,
                               clock, reqs>>

\* PATCH /quartos/{quarto_id}; the room is looked up by id alone
update_quarto(u, h, q, numero) ==
    LET r == quarto_check(u, h, q)
    IN  /\ IF r.status # HTTP_OK
           THEN /\ resp' = Resp("update_quarto", r.status, r.detail, NULL)
                /\ UNCHANGED <<db, reqs>>
           ELSE IF numero_em_uso(numero, quartos[q].republica_id, q)
           THEN /\ resp' = Resp("update_quarto", HTTP_INTERNAL_SERVER_ERROR,
                                "IntegrityError", NULL)
                /\ UNCHANGED <<db, reqs>>
           ELSE /\ quartos' = [quartos EXCEPT ![q].numero = numero]
                /\ resp' = Resp("update_quarto", HTTP_OK, "", NULL)
                /\ UNCHANGED <<users, redis, republicas, membros, despesas, pagamentos,
                               seq, clock, reqs>>

\* (the occupant check left out)
membro_no_quarto_omitted(q, except) == FALSE

\* select(Membro).where(Membro.quarto_id == q [, Membro.id != except])
membro_no_quarto(q, except) ==
    \E m \in DOMAIN membros \ {except} : membros[m].quarto_id = q

\* DELETE /quartos/{quarto_id}; the room is looked up by id alone
delete_quarto(u, h, q) ==
    LET r == quarto_check(u, h, q)
    IN  /\ IF r.status # HTTP_OK
           THEN /\ resp' = Resp("delete_quarto", r.status, r.detail, NULL)
                /\ UNCHANGED <<db, reqs>>
           ELSE IF membro_no_quarto(q, NULL)
           THEN /\ resp' = Resp("delete_quarto", HTTP_CONFLICT,
                                "Quarto ocupado", NULL)
                /\ UNCHANGED <<db, reqs>>
           ELSE /\ quartos' = Drop(quartos, {q})
                /\ resp' = Resp("delete_quarto", HTTP_OK, "Quarto excluido", NULL)
                /\ UNCHANGED <<users, redis, republicas, membros, despesas, pagamentos,
                               seq, clock, reqs>>

\* The checks the /quartos/{quarto_id}/... member handlers start with.
quarto_membro_check(u, q, m) ==
    IF q \notin DOMAIN quartos
    THEN Err(HTTP_NOT_FOUND, "Quarto nao encontrado")
    ELSE IF republicas[quartos[q].republica_id].user_id # u
    THEN Err(HTTP_UNAUTHORIZED, "Permissoes negadas")
    ELSE IF m \notin DOMAIN membros
    THEN Err(HTTP_NOT_FOUND, "Membro nao encontrado")
    ELSE Err(HTTP_OK, "")

\* PATCH /quartos/{quarto_id}/membros
adicionar_membro_ao_quarto_check(u, q, m) ==
    IF quarto_membro_check(u, q, m).status # HTTP_OK
    THEN quarto_membro_check(u, q, m)
    ELSE IF membros[m].republica_id # quartos[q].republica_id
    THEN Err(HTTP_BAD_REQUEST, "Membro nao pertence a mesma republica do quarto")
    ELSE IF membro_no_quarto(q, m)
    THEN Err(HTTP_CONFLICT, "Quarto ja esta ocupado")
    ELSE Err(HTTP_OK, "Membro adicionado ao quarto")

\* (the link written before the occupancy check, and left there)
adicionar_membro_ao_quarto_partial(u, q, m) ==
    LET r == adicionar_membro_ao_quarto_check(u, q, m)
    IN  /\ resp' = Resp("adicionar_membro_ao_quarto", r.status, r.detail, NULL)
        /\ IF r.status \in {HTTP_OK, HTTP_CONFLICT}
           THEN /\ membros' = [membros EXCEPT ![m].quarto_id = q]
                /\ UNCHANGED <<users, redis, republicas, quartos, despesas,
                               pagamentos, seq, clock, reqs>>
           ELSE UNCHANGED <<db, reqs>>

adicionar_membro_ao_quarto(u, q, m) ==
    LET r == adicionar_membro_ao_quarto_check(u, q, m)
    IN  /\ resp' = Resp("adicionar_membro_ao_quarto", r.status, r.detail, NULL)
        /\ IF r.status = HTTP_OK
           THEN /\ membros' = [membros EXCEPT ![m].quarto_id = q]
                /\ UNCHANGED <<users, redis, republicas, quartos, despesas, pagamentos,
                               seq, clock, reqs>>
           ELSE UNCHANGED <<db, reqs>>

\* PATCH /quartos/{quarto_id}/desocupar
desocupar_membro_do_quarto_check(u, q, m) ==
    IF quarto_membro_check(u, q, m).status # HTTP_OK
    THEN quarto_membro_check(u, q, m)
    ELSE IF membros[m].quarto_id # q
    THEN Err(HTTP_BAD_REQUEST, "Membro nao esta neste quarto")
    ELSE Err(HTTP_OK, "Membro desocupado do quarto")

desocupar_membro_do_quarto(u, q, m) ==
    LET r == desocupar_membro_do_quarto_check(u, q, m)
    IN  /\ resp' = Resp("desocupar_membro_do_quarto", r.status, r.detail, NULL)
        /\ IF r.status = HTTP_OK
           THEN /\ membros' = [membros EXCEPT ![m].quarto_id = NULL]
                /\ UNCHANGED <<users, redis, republicas, quartos, despesas, pagamentos,
                               seq, clock, reqs>>
           ELSE UNCHANGED <<db, reqs>>

\* (the house of the new room not compared)
remover_membro_do_quarto_check_any_house(u, q, m, novo) ==
    IF desocupar_membro_do_quarto_check(u, q, m).status # HTTP_OK
    THEN desocupar_membro_do_quarto_check(u, q, m)
    ELSE IF novo \notin DOMAIN quartos
    THEN Err(HTTP_NOT_FOUND, "Novo quarto nao encontrado")
    ELSE Err(HTTP_OK, "Membro transferido")

\* DELETE /quartos/{quarto_id}/membros/{membro_id}?novo_quarto_id=
remover_membro_do_quarto_check(u, q, m, novo) ==
    IF desocupar_membro_do_quarto_check(u, q, m).status # HTTP_OK
    THEN desocupar_membro_do_quarto_check(u, q, m)
    ELSE IF novo \notin DOMAIN quartos
    THEN Err(HTTP_NOT_FOUND, "Novo quarto nao encontrado")
    ELSE IF quartos[novo].republica_id # quartos[q].republica_id
    THEN Err(HTTP_BAD_REQUEST, "Novo quarto nao pertence a mesma republica")
    ELSE Err(HTTP_OK, "Membro transferido")

remover_membro_do_quarto(u, q, m, novo) ==
    LET r == remover_membro_do_quarto_check(u, q, m, novo)
    IN  /\ resp' = Resp("remover_membro_do_quarto", r.status, r.detail, NULL)
        /\ IF r.status = HTTP_OK
           THEN /\ membros' = [membros EXCEPT ![m].quarto_id = novo]
                /\ UNCHANGED <<users, redis, republicas, quartos, despesas, pagamentos,
                               seq, clock, reqs>>
           ELSE UNCHANGED <<db, reqs>>

----------------------------------------------------------------------------
\* Rooms and their occupants: rooms are created and deleted, members are
\* created (with or without a room), moved and deactivated; one request at
\* a time.  Rooms are numbered as they come and every new member brings a
\* fresh email and telephone.
NextQuartos ==
    \/ \E u \in Users, h \in RepublicaIds :
           create_quarto(u, h, seq.quartos + 1)
    \/ \E u \in Users, h \in RepublicaIds, q \in QuartoIds :
           delete_quarto(u, h, q)
    \/ \E u \in Users, h \in RepublicaIds, q \in QuartoIds \cup {NULL} :
           create_member(u, h, seq.membros + 1, seq.membros + 1, q)
    \/ \E u \in Users, h \in RepublicaIds, m \in MembroIds,
          q \in QuartoIds \cup {NULL} :
           /\ m \in DOMAIN membros
           /\ update_member(u, h, m, membros[m].email, membros[m].telephone, q)
    \/ \E u \in Users, h \in RepublicaIds, m \in MembroIds :
           delete_member(u, h, m)
    \/ \E u \in Users, q \in QuartoIds, m \in MembroIds :
           adicionar_membro_ao_quarto(u, q, m)
    \/ \E u \in Users, q \in QuartoIds, m \in MembroIds :
           desocupar_membro_do_quarto(u, q, m)
    \/ \E u \in Users, q \in QuartoIds, m \in MembroIds, novo \in QuartoIds :
           remover_membro_do_quarto(u, q, m, novo)

SpecQuartos == Init /\ [][NextQuartos]_vars

----------------------------------------------------------------------------
\* Rooms of the two houses: any caller creates, renumbers and deletes rooms
\* with any republica_id and quarto_id; one request at a time.
NextCasas ==
    \/ \E u \in Users, h \in RepublicaIds, n \in Numeros :
           create_quarto(u, h, n)
    \/ \E u \in Users, h \in RepublicaIds, q \in QuartoIds, n \in Numeros :
           update_quarto(u, h, q, n)
    \/ \E u \in Users, h \in RepublicaIds, q \in QuartoIds :
           delete_quarto(u, h, q)

SpecCasas == Init /\ [][NextCasas]_vars

----------------------------------------------------------------------------
\* GET /membros/{republica_id}
\* (the republica_id filter left out)
read_members_query_any_house(h, incluir_inativos) ==
    {m \in DOMAIN membros : incluir_inativos \/ membros[m].ativo}

\* select(Membro).where(Membro.republica_id == h) [.where(Membro.ativo == True)]
read_members_query(h, incluir_inativos) ==
    {m \in DOMAIN membros :
        /\ membros[m].republica_id = h
        /\ incluir_inativos \/ membros[m].ativo}

\* the rows of a result set in some order: the query has no ORDER BY
Rows(S) ==
    {r \in [1..Cardinality(S) -> S] :
        \A i, j \in 1..Cardinality(S) : r[i] = r[j] => i = j}

\* query.offset(offset).limit(limit)
Window(rows, offset, limit) ==
    IF offset >= Len(rows) THEN <<>>
    ELSE SubSeq(rows, offset + 1,
                IF offset + limit < Len(rows) THEN offset + limit ELSE Len(rows))

\* MemberPublic, from_attributes
MemberPublic(m) ==
    [id |-> m, email |-> membros[m].email, telephone |-> membros[m].telephone,
     quarto_id |-> membros[m].quarto_id, ativo |-> membros[m].ativo,
     data_saida |-> membros[m].data_saida]

read_members(u, h, limit, offset, incluir_inativos) ==
    /\ IF h \notin DOMAIN republicas
       THEN resp' = Resp("read_members", HTTP_NOT_FOUND,
                         "Republica nao encontrada", NULL)
       ELSE IF republicas[h].user_id # u
       THEN resp' = Resp("read_members", HTTP_UNAUTHORIZED,
                         "Permissoes negadas", NULL)
       ELSE \E rows \in Rows(read_members_query(h, incluir_inativos)) :
               LET page == Window(rows, offset, limit)
               IN  resp' = [op |-> "read_members", status |-> HTTP_OK,
                            detail |-> "", id |-> NULL,
                            members |-> [i \in 1..Len(page) |->
                                            MemberPublic(page[i])]]
    /\ UNCHANGED <<db, reqs>>

\* Listings: members join and leave the two houses and the members of a
\* house are listed; one request at a time.
NextListagem ==
    \/ \E u \in Users, h \in RepublicaIds :
           create_member(u, h, seq.membros + 1, seq.membros + 1, NULL)
    \/ \E u \in Users, h \in RepublicaIds, m \in MembroIds :
           delete_member(u, h, m)
    \/ \E u \in Users, h \in RepublicaIds, limit \in Paginas,
          offset \in Paginas, incluir_inativos \in BOOLEAN :
           read_members(u, h, limit, offset, incluir_inativos)

SpecListagem == Init /\ [][NextListagem]_vars

----------------------------------------------------------------------------
\* Password reset: /forgot-password, /verify-code, /reset-password

\* the passwords tried: strong ones of each length, and of length MIN_LEN
\* those that lack one class of character
Senhas ==
    {Senha(len, TRUE, TRUE, TRUE, TRUE) : len \in (MIN_LEN - 1)..MaxSenha}
    \cup {Senha(MIN_LEN, FALSE, TRUE, TRUE, TRUE),
          Senha(MIN_LEN, TRUE, FALSE, TRUE, TRUE),
          Senha(MIN_LEN, TRUE, TRUE, FALSE, TRUE),
          Senha(MIN_LEN, TRUE, TRUE, TRUE, FALSE)}

verify_strong_password(password) ==
    /\ password.len >= MIN_LEN
    /\ password.upper
    /\ password.lower
    /\ password.digit
    /\ password.special

\* session.scalar(select(User).where(User.email == email)), NULL for None
user_by_email(email) ==
    IF \E u \in DOMAIN users : users[u].email = email
    THEN CHOOSE u \in DOMAIN users : users[u].email = email
    ELSE NULL

\* the payload create_access_token signs, and whether its exp has passed
jwt(sub, scope, expired) ==
    [kind |-> "jwt", sub |-> sub, scope |-> scope, expired |-> expired]

\* what a client can put in the Authorization header: nothing, a string
\* that is no token of this server, a login token (no scope) or a reset
\* token, fresh or expired
Tokens ==
    {[kind |-> "none"], [kind |-> "garbage"]}
    \cup {jwt(sub, scope, expired) :
            sub \in Emails, scope \in {"", "reset_password"},
            expired \in BOOLEAN}

\* (the scope of the token not looked at)
get_current_user_for_reset_any_scope(token) ==
    IF token.kind # "jwt" \/ token.expired
    THEN NULL
    ELSE user_by_email(token.sub)

\* the user the dependency returns, NULL where it raises 401
get_current_user_for_reset(token) ==
    IF token.kind # "jwt" \/ token.expired
    THEN NULL
    ELSE IF token.sub = NULL \/ token.scope # "reset_password"
    THEN NULL
    ELSE user_by_email(token.sub)

\* outcome: what the Redis SET and the SMTP delivery do
Outcomes == {"sent", "set_failed", "send_failed"}

\* what /forgot-password answers
forgot_password_response(email, outcome) ==
    IF ~redis.client
    THEN Resp("forgot_password", HTTP_SERVICE_UNAVAILABLE,
              "Service unavailable", NULL)
    ELSE IF user_by_email(email) # NULL /\ outcome # "sent"
    THEN Resp("forgot_password", HTTP_SERVICE_UNAVAILABLE,
              "Erro no servico de cache", NULL)
    ELSE Resp("forgot_password", HTTP_OK,
              "if the email exists, a reset code has been sent", NULL)

forgot_password(email, code, outcome) ==
    /\ resp' = forgot_password_response(email, outcome)
    /\ IF redis.client /\ user_by_email(email) # NULL /\ outcome # "set_failed"
       THEN redis' = [redis EXCEPT !.codes = Put(@, email, code)]
       ELSE redis' = redis
    /\ UNCHANGED <<users, republicas, quartos, membros, despesas, pagamentos,
                   seq, clock, reqs>>

\* what /verify-code answers, but for the token
verify_code_response(email, code) ==
    IF ~redis.client
    THEN Resp("verify_code", HTTP_SERVICE_UNAVAILABLE,
              "Service unavailable", NULL)
    ELSE IF email \notin DOMAIN redis.codes \/ redis.codes[email] # code
    THEN Resp("verify_code", HTTP_BAD_REQUEST, "Invalid or expired code.",
              NULL)
    ELSE Resp("verify_code", HTTP_OK, "", NULL)

\* the reset token goes with a 200
with_reset_token(r, email) ==
    IF r.status = HTTP_OK
    THEN [op |-> r.op, status |-> r.status, detail |-> r.detail, id |-> r.id,
          reset_token |-> jwt(email, "reset_password", FALSE)]
    ELSE r

\* (the key left in place after a match)
verify_code_keeps_key(email, code) ==
    /\ resp' = with_reset_token(verify_code_response(email, code), email)
    /\ UNCHANGED <<db, reqs>>

verify_code(email, code) ==
    /\ resp' = with_reset_token(verify_code_response(email, code), email)
    /\ IF verify_code_response(email, code).status = HTTP_OK
       THEN redis' = [redis EXCEPT !.codes = Drop(@, {email})]
       ELSE redis' = redis
    /\ UNCHANGED <<users, republicas, quartos, membros, despesas, pagamentos,
                   seq, clock, reqs>>

\* the ttl_seconds of the key run out
expire_reset_code(email) ==
    /\ email \in DOMAIN redis.codes
    /\ redis' = [redis EXCEPT !.codes = Drop(@, {email})]
    /\ resp' = NoResp
    /\ UNCHANGED <<users, republicas, quartos, membros, despesas, pagamentos,
                   seq, clock, reqs>>

reset_password(token, new_password) ==
    /\ IF token.kind = "none"
       THEN /\ resp' = Resp("reset_password", HTTP_UNAUTHORIZED,
                            "Not authenticated", NULL)
            /\ users' = users
       ELSE IF get_current_user_for_reset(token) = NULL
       THEN /\ resp' = Resp("reset_password", HTTP_UNAUTHORIZED,
                            "Could not validate credentials", NULL)
            /\ users' = users
       ELSE IF new_password.len < MIN_LEN
       THEN /\ resp' = Resp("reset_password", HTTP_UNPROCESSABLE_CONTENT,
                            "string_too_short", NULL)
            /\ users' = users
       ELSE IF ~verify_strong_password(new_password)
       THEN /\ resp' = Resp("reset_password", HTTP_UNPROCESSABLE_CONTENT,
                            "Weak password", NULL)
            /\ users' = users
       ELSE /\ users' = [users EXCEPT
                            ![get_current_user_for_reset(token)].password =
                                get_password_hash(new_password)]
            /\ resp' = Resp("reset_password", HTTP_OK,
                            "password changed successfully.", NULL)
    /\ UNCHANGED <<redis, republicas, quartos, membros, despesas, pagamentos,
                   seq, clock, reqs>>

\* redis_client is bound once at import: a client, or None when the
\* connection failed
InitAuth ==
    /\ users = [u \in Users |-> new_user(u, SenhaInicial)]
    /\ \E client \in BOOLEAN : redis = [client |-> client, codes |-> EmptyTable]
    /\ republicas = [h \in {1, 2} |-> [user_id |-> h]]
    /\ quartos = EmptyTable
    /\ membros = EmptyTable
    /\ despesas = EmptyTable
    /\ pagamentos = EmptyTable
    /\ seq = [membros |-> 0, quartos |-> 0, despesas |-> 0, pagamentos |-> 0]
    /\ clock = 1
    /\ resp = NoResp
    /\ reqs = [s \in Slots |-> Idle]

NextAuth ==
    \/ \E email \in Emails, code \in Codes, outcome \in Outcomes :
           forgot_password(email, code, outcome)
    \/ \E email \in Emails, code \in Codes : verify_code(email, code)
    \/ \E email \in Emails : expire_reset_code(email)
    \/ \E token \in Tokens, new_password \in Senhas :
           reset_password(token, new_password)

SpecAuth == InitAuth /\ [][NextAuth]_vars

----------------------------------------------------------------------------
\* Contacts: members are created, edited and deactivated with any email and
\* telephone, without rooms; one request at a time.
NextContatos ==
    \/ \E u \in Users, h \in RepublicaIds, e \in Contacts, t \in Contacts :
           create_member(u, h, e, t, NULL)
    \/ \E u \in Users, h \in RepublicaIds, m \in MembroIds,
          e \in Contacts, t \in Contacts :
           update_member(u, h, m, e, t, NULL)
    \/ \E u \in Users, h \in RepublicaIds, m \in MembroIds :
           delete_member(u, h, m)

SpecContatos == Init /\ [][NextContatos]_vars

----------------------------------------------------------------------------
\* Departures: the owner of house 1 sets up rooms, members (with or without
\* a room), an expense and payments, and members are deactivated by any
\* caller in any house; one request at a time.
NextSaida ==
    \/ create_quarto(1, 1, seq.quartos + 1)
    \/ \E q \in QuartoIds \cup {NULL} :
           create_member(1, 1, seq.membros + 1, seq.membros + 1, q)
    \/ \E v \in Valores : create_despesa(1, 1, v)
    \/ \E d \in DespesaIds, m \in MembroIds : registrar_pagamento(1, 1, d, m)
    \/ \E u \in Users, h \in RepublicaIds, m \in MembroIds :
           delete_member(u, h, m)

SpecSaida == Init /\ [][NextSaida]_vars

----------------------------------------------------------------------------
\* Settling one expense.  The store holds up to MaxMoradores members, each
\* in house 1 or 2 and each active or departed, at least one of them active
\* in house 1, and one pending expense of house 1; then every active member
\* of house 1 who has not paid yet registers a payment, in any order, and
\* nothing else happens.
InitQuitacao ==
    \E k \in 1..MaxMoradores, T \in Valores :
      \E casa \in [1..k -> {1, 2}], ativo \in [1..k -> BOOLEAN] :
        /\ \E m \in 1..k : casa[m] = 1 /\ ativo[m]
        /\ users = [u \in Users |-> new_user(u, SenhaInicial)]
        /\ redis = [client |-> TRUE, codes |-> EmptyTable]
        /\ republicas = [h \in {1, 2} |-> [user_id |-> h]]
        /\ quartos = EmptyTable
        /\ membros = [m \in 1..k |->
               [email |-> m, telephone |-> m, republica_id |-> casa[m],
                quarto_id |-> NULL, ativo |-> ativo[m],
                data_saida |-> IF ativo[m] THEN NULL ELSE m]]
        /\ despesas = [d \in {1} |->
               [valor_total |-> T, republica_id |-> 1, status |-> PENDENTE]]
        /\ pagamentos = EmptyTable
        /\ seq = [membros |-> k, quartos |-> 0, despesas |-> 1, pagamentos |-> 0]
        /\ clock = k + 1
        /\ resp = NoResp
        /\ reqs = [s \in Slots |-> Idle]

NextQuitacao ==
    \E m \in DOMAIN membros :
        /\ membros[m].republica_id = 1 /\ membros[m].ativo
        /\ \A p \in DOMAIN pagamentos : pagamentos[p].membro_id # m
        /\ registrar_pagamento(1, 1, 1, m)

SpecQuitacao == InitQuitacao /\ [][NextQuitacao]_vars

----------------------------------------------------------------------------
\* Requests running concurrently.  Each request has its own Session and the
\* store runs it at READ COMMITTED: every SELECT of a handler reads the rows
\* committed at that moment, every session.commit() publishes the handler's
\* writes.  A step below is one SELECT (with the checks the handler makes on
\* its result) or one commit; reqs[s] holds the handler's position and the
\* Python locals it has bound so far.
Return(s, op, r, args, id) ==
    /\ reqs' = [reqs EXCEPT ![s] = [pc |-> "done", op |-> op,
                    status |-> r.status, detail |-> r.detail,
                    args |-> args, id |-> id]]
    /\ resp' = Resp(op, r.status, r.detail, id)

Goto(s, pc, locals) ==
    /\ reqs' = [reqs EXCEPT ![s] = [pc |-> pc] @@ locals]
    /\ UNCHANGED resp

rp_args(s) == <<reqs[s].u, reqs[s].h, reqs[s].d, reqs[s].m>>

\* registrar_pagamento, lines 244-256: db_republica
rp_republica(s, u, h, d, m) ==
    LET r == despesa_check(u, h, NULL)
    IN  /\ reqs[s].pc = "idle"
        /\ UNCHANGED db
        /\ IF r.status # HTTP_OK
           THEN Return(s, "registrar_pagamento", r, <<u, h, d, m>>, NULL)
           ELSE Goto(s, "rp_despesa",
                     [op |-> "registrar_pagamento",
                      u |-> u, h |-> h, d |-> d, m |-> m])

\* lines 258-273: db_despesa
rp_despesa(s) ==
    LET q == reqs[s]
        r == despesa_check(q.u, q.h, q.d)
    IN  /\ q.pc = "rp_despesa"
        /\ UNCHANGED db
        /\ IF r.status # HTTP_OK
           THEN Return(s, q.op, r, rp_args(s), NULL)
           ELSE IF despesas[q.d].status = PAGO
           THEN Return(s, q.op,
                       Err(HTTP_BAD_REQUEST, "Despesa ja esta marcada como paga"),
                       rp_args(s), NULL)
           ELSE Goto(s, "rp_membro",
                     [valor_total |-> despesas[q.d].valor_total] @@ q)

\* lines 275-288: db_membro
rp_membro(s) ==
    LET q == reqs[s]
    IN  /\ q.pc = "rp_membro"
        /\ UNCHANGED db
        /\ IF q.m \notin DOMAIN membros
           THEN Return(s, q.op, Err(HTTP_NOT_FOUND, "Membro nao encontrado"),
                       rp_args(s), NULL)
           ELSE IF membros[q.m].republica_id # q.h
           THEN Return(s, q.op,
                       Err(HTTP_BAD_REQUEST, "Membro nao pertence a esta republica"),
                       rp_args(s), NULL)
           ELSE Goto(s, "rp_existente", q)

\* lines 290-301: pagamento_existente
rp_existente(s) ==
    LET q == reqs[s]
    IN  /\ q.pc = "rp_existente"
        /\ UNCHANGED db
        /\ IF pagamento_existente(q.m, q.d)
           THEN Return(s, q.op, Err(HTTP_CONFLICT, "ja pagou esta despesa"),
                       rp_args(s), NULL)
           ELSE Goto(s, "rp_num_membros", q)

\* lines 303-315: num_membros, valor_por_membro
rp_num_membros(s) ==
    LET q == reqs[s]
        n == num_membros(q.h)
    IN  /\ q.pc = "rp_num_membros"
        /\ UNCHANGED db
        /\ IF n = 0
           THEN Return(s, q.op,
                       Err(HTTP_BAD_REQUEST, "Republica nao tem membros cadastrados"),
                       rp_args(s), NULL)
           ELSE Goto(s, "rp_insert", [num_membros |-> n] @@ q)

\* lines 317-325: the INSERT and the first commit; table pagamentos has no
\* constraint over (membro_id, despesa_id)
rp_insert(s) ==
    LET q == reqs[s]
        id == seq.pagamentos + 1
    IN  /\ q.pc = "rp_insert"
        /\ seq.pagamentos < MaxPagamentos
        /\ pagamentos' = Put(pagamentos, id,
               [membro_id |-> q.m, despesa_id |-> q.d,
                valor_pago |-> valor_por_membro(q.valor_total, q.num_membros)])
        /\ seq' = [seq EXCEPT !.pagamentos = id]
        /\ UNCHANGED <<users, redis, republicas, quartos, membros, despesas, clock>>
        /\ Goto(s, "rp_num_pagamentos", [id |-> id] @@ q)

\* lines 328-332: num_pagamentos
rp_num_pagamentos(s) ==
    LET q == reqs[s]
    IN  /\ q.pc = "rp_num_pagamentos"
        /\ UNCHANGED db
        /\ Goto(s, "rp_commit",
                [num_pagamentos |-> num_pagamentos(pagamentos, q.d)] @@ q)

\* (the status written back whatever the count: pendente unless settled)
rp_commit_overwrite(s) ==
    LET q == reqs[s]
    IN  /\ q.pc = "rp_commit"
        /\ despesas' = IF q.d \in DOMAIN despesas
                       THEN [despesas EXCEPT ![q.d].status =
                                status_apos_pagamento(PENDENTE, q.num_pagamentos,
                                                      q.num_membros)]
                       ELSE despesas
        /\ UNCHANGED <<users, redis, republicas, quartos, membros, pagamentos, seq, clock>>
        /\ Return(s, q.op, Err(HTTP_CREATED, ""), rp_args(s), q.id)

\* lines 335-341: the status UPDATE and the second commit
rp_commit(s) ==
    LET q == reqs[s]
    IN  /\ q.pc = "rp_commit"
        /\ despesas' = IF q.d \in DOMAIN despesas
                       THEN [despesas EXCEPT ![q.d].status =
                                status_apos_pagamento(@, q.num_pagamentos,
                                                      q.num_membros)]
                       ELSE despesas
        /\ UNCHANGED <<users, redis, republicas, quartos, membros, pagamentos, seq, clock>>
        /\ Return(s, q.op, Err(HTTP_CREATED, ""), rp_args(s), q.id)

\* One house with its members, all active, and one pending expense.
InitPagamentos ==
    \E k \in 1..MaxMembros, T \in Valores :
        /\ users = [u \in Users |-> new_user(u, SenhaInicial)]
        /\ redis = [client |-> TRUE, codes |-> EmptyTable]
        /\ republicas = [h \in {1, 2} |-> [user_id |-> h]]
        /\ quartos = EmptyTable
        /\ membros = [m \in 1..k |-> new_member(1, m, m, NULL)]
        /\ despesas = [d \in {1} |->
               [valor_total |-> T, republica_id |-> 1, status |-> PENDENTE]]
        /\ pagamentos = EmptyTable
        /\ seq = [membros |-> k, quartos |-> 0, despesas |-> 1, pagamentos |-> 0]
        /\ clock = 1
        /\ resp = NoResp
        /\ reqs = [s \in Slots |-> Idle]

\* Two Register Payment requests of the owner, interleaved.
NextPagamentos ==
    \E s \in Slots :
        \/ \E m \in MembroIds : rp_republica(s, 1, 1, 1, m)
        \/ rp_despesa(s)
        \/ rp_membro(s)
        \/ rp_existente(s)
        \/ rp_num_membros(s)
        \/ rp_insert(s)
        \/ rp_num_pagamentos(s)
        \/ rp_commit(s)

SpecPagamentos == InitPagamentos /\ [][NextPagamentos]_vars

\* Register Payment requests interleaved with members joining and leaving
\* the house (each of these one commit).
NextPagamentosMembros ==
    \/ NextPagamentos
    \/ create_member(1, 1, seq.membros + 1, seq.membros + 1, NULL)
    \/ \E m \in MembroIds : delete_member(1, 1, m)

SpecPagamentosMembros == InitPagamentos /\ [][NextPagamentosMembros]_vars


cm_args(s) == <<reqs[s].u, reqs[s].h, reqs[s].q>>

\* create_member, lines 32-37 and 111-119: db_republica
cm_republica(s, u, h, email, tel, q) ==
    LET r == quarto_check(u, h, NULL)
    IN  /\ reqs[s].pc = "idle"
        /\ UNCHANGED db
        /\ IF r.status # HTTP_OK
           THEN Return(s, "create_member", r, <<u, h, q>>, NULL)
           ELSE Goto(s, "cm_email",
                     [op |-> "create_member", u |-> u, h |-> h,
                      email |-> email, telephone |-> tel, q |-> q])

\* lines 38-50: membro_com_email
cm_email(s) ==
    LET c == reqs[s]
    IN  /\ c.pc = "cm_email"
        /\ UNCHANGED db
        /\ IF membro_com_email(c.email, NULL)
           THEN Return(s, c.op, Err(HTTP_CONFLICT, "Membro ja existe"),
                       cm_args(s), NULL)
           ELSE Goto(s, "cm_telefone", c)

\* lines 52-67: membro_com_telefone
cm_telefone(s) ==
    LET c == reqs[s]
    IN  /\ c.pc = "cm_telefone"
        /\ UNCHANGED db
        /\ IF membro_com_telefone(c.telephone, NULL)
           THEN Return(s, c.op, Err(HTTP_CONFLICT, "Membro ja existe"),
                       cm_args(s), NULL)
           ELSE Goto(s, IF c.q = NULL THEN "cm_insert" ELSE "cm_quarto", c)

\* lines 68-82: db_quarto
cm_quarto(s) ==
    LET c == reqs[s]
    IN  /\ c.pc = "cm_quarto"
        /\ UNCHANGED db
        /\ IF c.q \notin DOMAIN quartos
           THEN Return(s, c.op, Err(HTTP_NOT_FOUND, "Quarto nao encontrado"),
                       cm_args(s), NULL)
           ELSE IF quartos[c.q].republica_id # c.h
           THEN Return(s, c.op,
                       Err(HTTP_BAD_REQUEST, "Quarto nao pertence a esta republica"),
                       cm_args(s), NULL)
           ELSE Goto(s, "cm_membro_existente", c)

\* lines 84-96: membro_existente
cm_membro_existente(s) ==
    LET c == reqs[s]
    IN  /\ c.pc = "cm_membro_existente"
        /\ UNCHANGED db
        /\ IF membro_existente(c.q, NULL)
           THEN Return(s, c.op, Err(HTTP_CONFLICT, "Este quarto ja esta ocupado"),
                       cm_args(s), NULL)
           ELSE Goto(s, "cm_insert", c)

\* lines 98-110: the INSERT and the commit; table membros has no constraint
\* over quarto_id
cm_insert(s) ==
    LET c == reqs[s]
        id == seq.membros + 1
    IN  /\ c.pc = "cm_insert"
        /\ seq.membros < MaxMembros
        /\ membros' = Put(membros, id,
                          new_member(c.h, c.email, c.telephone, c.q))
        /\ seq' = [seq EXCEPT !.membros = id]
        /\ UNCHANGED <<users, redis, republicas, quartos, despesas, pagamentos, clock>>
        /\ Return(s, c.op, Err(HTTP_CREATED, ""), cm_args(s), id)

\* One house with its rooms, all empty, and no member yet.
InitOcupacao ==
    \E k \in 1..MaxQuartos :
        /\ users = [u \in Users |-> new_user(u, SenhaInicial)]
        /\ redis = [client |-> TRUE, codes |-> EmptyTable]
        /\ republicas = [h \in {1, 2} |-> [user_id |-> h]]
        /\ quartos = [q \in 1..k |-> [numero |-> q, republica_id |-> 1]]
        /\ membros = EmptyTable
        /\ despesas = EmptyTable
        /\ pagamentos = EmptyTable
        /\ seq = [membros |-> 0, quartos |-> k, despesas |-> 0, pagamentos |-> 0]
        /\ clock = 1
        /\ resp = NoResp
        /\ reqs = [s \in Slots |-> Idle]

\* Two Create Member requests of the owner, interleaved; each brings its
\* own email and telephone.
NextOcupacao ==
    \E s \in Slots :
        \/ \E q \in QuartoIds \cup {NULL} : cm_republica(s, 1, 1, s, s, q)
        \/ cm_email(s)
        \/ cm_telefone(s)
        \/ cm_quarto(s)
        \/ cm_membro_existente(s)
        \/ cm_insert(s)

SpecOcupacao == InitOcupacao /\ [][NextOcupacao]_vars

----------------------------------------------------------------------------
\* Vocabulary of the claims.

\* the ACTIVE members of house h
ativos(h) == {m \in DOMAIN membros :
                 membros[m].republica_id = h /\ membros[m].ativo}

\* the payments recorded for expense d
pagamentos_de(d) == {p \in DOMAIN pagamentos : pagamentos[p].despesa_id = d}

\* member m has a payment recorded for expense d
JaPagou(m, d) ==
    \E p \in DOMAIN pagamentos :
        pagamentos[p].membro_id = m /\ pagamentos[p].despesa_id = d

\* the active members linked to room q
ocupantes(q) == {m \in DOMAIN membros :
                    membros[m].quarto_id = q /\ membros[m].ativo}

\* The kind of a response in the error taxonomy: NotFound, Conflict
\* (duplicate payment, occupied room, duplicate contact, expense already
\* paid), InvalidRelation (a row of another house), InvalidState (no members).
Kind(r) ==
    IF r.status \in {HTTP_OK, HTTP_CREATED} THEN "OK"
    ELSE IF r.status = HTTP_NOT_FOUND THEN "NotFound"
    ELSE IF r.status = HTTP_CONFLICT THEN "Conflict"
    ELSE IF r.status = HTTP_UNAUTHORIZED THEN "Unauthorized"
    ELSE IF r.detail = "Despesa ja esta marcada como paga" THEN "Conflict"
    ELSE IF r.detail = "Republica nao tem membros cadastrados" THEN "InvalidState"
    ELSE "InvalidRelation"

\* the caller u owns house h and expense d is an expense of h
DonoDaDespesa(u, h, d) ==
    /\ h \in DOMAIN republicas /\ republicas[h].user_id = u
    /\ d \in DOMAIN despesas /\ despesas[d].republica_id = h

\* the last response is that of a successful Register Payment, made for a
\* member who is active
PagouAtivo ==
    /\ resp.op = "registrar_pagamento"
    /\ resp.status = HTTP_CREATED
    /\ membros[pagamentos[resp.id].membro_id].ativo

----------------------------------------------------------------------------
\* C1: the amount of the payment a successful Register Payment creates is
\* the expense's total divided by the number of ACTIVE members of the house
\* (stated for an active payer, whose house has at least one active member).
C1_ShareOverActiveMembers ==
    PagouAtivo =>
        LET d == pagamentos[resp.id].despesa_id
        IN  pagamentos[resp.id].valor_pago =
                Quot(despesas[d].valor_total,
                     Cardinality(ativos(despesas[d].republica_id)))

\* C2: when Register Payment succeeds, the expense is paid on return if and
\* only if its payments are at least as many as the ACTIVE members of the
\* house; otherwise it stays pending (stated for an active payer).
C2_PaidIffAllActivePaid ==
    PagouAtivo =>
        LET d == pagamentos[resp.id].despesa_id
            settled == Cardinality(pagamentos_de(d)) >=
                           Cardinality(ativos(despesas[d].republica_id))
        IN  despesas[d].status = IF settled THEN PAGO ELSE PENDENTE

\* C3: with N >= 1 active members (and whatever departed ones) and a pending
\* expense of total T, when each active member registers one payment every
\* call succeeds, each payment is T / N, the expense is pending after the
\* first N - 1 payments and paid after the N-th, and the payments sum to T.
C3_EqualSharesSettle ==
    LET N == Cardinality(ativos(1))
        T == despesas[1].valor_total
        P == pagamentos_de(1)
    IN  /\ resp.op = "registrar_pagamento" => resp.status = HTTP_CREATED
        /\ \A p \in P : pagamentos[p].valor_pago = Quot(T, N)
        /\ despesas[1].status = IF Cardinality(P) >= N THEN PAGO ELSE PENDENTE
        /\ Cardinality(P) = N =>
               RatSum([p \in P |-> pagamentos[p].valor_pago], P) = <<T, 1>>

\* C4: there is at most one Payment per (member, expense) pair, and a
\* Register Payment by the owner for a pair that already has a payment fails
\* with Conflict, creates no Payment and leaves the expense status unchanged.
OnePaymentPerPair ==
    \A p1, p2 \in DOMAIN pagamentos :
        (/\ pagamentos[p1].membro_id = pagamentos[p2].membro_id
         /\ pagamentos[p1].despesa_id = pagamentos[p2].despesa_id) => p1 = p2

C4_DuplicatePaymentRejected ==
    [][/\ OnePaymentPerPair'
       /\ \A u \in Users, h \in RepublicaIds, d \in DespesaIds, m \in MembroIds :
            (/\ registrar_pagamento(u, h, d, m)
             /\ DonoDaDespesa(u, h, d)
             /\ JaPagou(m, d))
            => /\ Kind(resp') = "Conflict"
               /\ pagamentos' = pagamentos
               /\ despesas' = despesas]_vars

\* C4 witness: Register Payment has just been answered 409 for an expense
\* that is still pending and has a payment.
C4_Witness ==
    /\ resp.op = "registrar_pagamento"
    /\ resp.status = HTTP_CONFLICT
    /\ \E d \in DOMAIN despesas :
           despesas[d].status = PENDENTE /\ pagamentos_de(d) # {}

\* C5: of two concurrent Register Payment requests for the same (member,
\* expense) pair exactly one succeeds and the other fails with Conflict, and
\* no state holds two Payment rows for one pair.
C5_ConcurrentDuplicateRejected ==
    /\ OnePaymentPerPair
    /\ (/\ \A s \in Slots : reqs[s].pc = "done"
        /\ reqs[1].args = reqs[2].args
        /\ Kind(reqs[1]) = "OK" \/ Kind(reqs[2]) = "OK")
       => \E s, t \in Slots :
              Kind(reqs[s]) = "OK" /\ Kind(reqs[t]) = "Conflict"

\* C6: no committed state holds a Payment row that brings the payments of
\* an expense to the settlement threshold while the expense is still pending.
C6_SettlementAtomic ==
    \A d \in DOMAIN despesas :
        (/\ pagamentos_de(d) # {}
         /\ Cardinality(pagamentos_de(d)) >=
                Cardinality(ativos(despesas[d].republica_id)))
        => despesas[d].status = PAGO

\* C7: Register Payment by the owner reports the first failing precondition
\* in the order: house and expense exist (NotFound), expense not paid
\* (Conflict), member exists (NotFound), member of the house
\* (InvalidRelation), no payment yet for the pair (Conflict), some ACTIVE
\* member in the house (InvalidState); on an error nothing is written.
FirstFailing(h, d, m) ==
    IF h \notin DOMAIN republicas \/ d \notin DOMAIN despesas THEN "NotFound"
    ELSE IF despesas[d].republica_id # h THEN "NotFound"
    ELSE IF despesas[d].status = PAGO THEN "Conflict"
    ELSE IF m \notin DOMAIN membros THEN "NotFound"
    ELSE IF membros[m].republica_id # h THEN "InvalidRelation"
    ELSE IF JaPagou(m, d) THEN "Conflict"
    ELSE IF ativos(h) = {} THEN "InvalidState"
    ELSE "OK"

C7_FirstFailingPrecondition ==
    [][\A u \in Users, h \in RepublicaIds, d \in DespesaIds, m \in MembroIds :
         (/\ registrar_pagamento(u, h, d, m)
          /\ h \in DOMAIN republicas => republicas[h].user_id = u)
         => /\ Kind(resp') = FirstFailing(h, d, m)
            /\ FirstFailing(h, d, m) # "OK" =>
                   (pagamentos' = pagamentos /\ despesas' = despesas)]_vars

\* C8: a deactivated member cannot register a payment: Register Payment for
\* a member with ativo = false fails and writes nothing.
C8_InactiveMemberCannotPay ==
    [][\A u \in Users, h \in RepublicaIds, d \in DespesaIds, m \in MembroIds :
         (/\ registrar_pagamento(u, h, d, m)
          /\ m \in DOMAIN membros
          /\ ~membros[m].ativo)
         => /\ Kind(resp') # "OK"
            /\ pagamentos' = pagamentos
            /\ despesas' = despesas]_vars

\* C9: every room is linked to at most one active member.
C9_RoomOccupancy ==
    \A q \in DOMAIN quartos : Cardinality(ocupantes(q)) <= 1

\* C10: of two concurrent requests that place a member into the same empty
\* room exactly one succeeds and the other fails with Conflict, and no state
\* has two active members linked to one room.
C10_ConcurrentRoomRace ==
    /\ \A q \in DOMAIN quartos : Cardinality(ocupantes(q)) <= 1
    /\ (/\ \A s \in Slots : reqs[s].pc = "done"
        /\ reqs[1].args = reqs[2].args
        /\ reqs[1].args[3] \in DOMAIN quartos
        /\ Kind(reqs[1]) = "OK" \/ Kind(reqs[2]) = "OK")
       => \E s, t \in Slots :
              Kind(reqs[s]) = "OK" /\ Kind(reqs[t]) = "Conflict"

\* C11: every member with ativo = false has data_saida set and no room
\* link; no operation gives a room to a deactivated member.
C11_InactiveHasNoRoom ==
    \A m \in DOMAIN membros :
        ~membros[m].ativo =>
            membros[m].data_saida # NULL /\ membros[m].quarto_id = NULL

\* the caller u owns house h
Dono(u, h) == h \in DOMAIN republicas /\ republicas[h].user_id = u

\* an ACTIVE member other than except has email e or telephone t
ContatoEmUso(e, t, except) ==
    \E m \in DOMAIN membros \ {except} :
        membros[m].ativo /\ (membros[m].email = e \/ membros[m].telephone = t)

ContatosUnicos ==
    \A m1, m2 \in DOMAIN membros :
        (m1 # m2 /\ membros[m1].ativo /\ membros[m2].ativo)
        => /\ membros[m1].email # membros[m2].email
           /\ membros[m1].telephone # membros[m2].telephone

\* C12: no two active members share an email or a telephone, and a Create
\* Member or update_member by the owner that would give an active member the
\* email or telephone of another active member fails with Conflict and
\* changes nothing.
C12_ActiveContactsUnique ==
    [][/\ ContatosUnicos'
       /\ \A u \in Users, h \in RepublicaIds, e \in Contacts, t \in Contacts :
            (create_member(u, h, e, t, NULL) /\ Dono(u, h)
             /\ ContatoEmUso(e, t, NULL))
            => Kind(resp') = "Conflict" /\ membros' = membros
       /\ \A u \in Users, h \in RepublicaIds, m \in MembroIds,
             e \in Contacts, t \in Contacts :
            (/\ update_member(u, h, m, e, t, NULL) /\ Dono(u, h)
             /\ m \in DOMAIN membros
             /\ membros[m].republica_id = h /\ membros[m].ativo
             /\ ContatoEmUso(e, t, m))
            => Kind(resp') = "Conflict" /\ membros' = membros]_vars

\* C12 witness: update_member has just been answered 409 while two members
\* are active.
C12_Witness ==
    /\ resp.op = "update_member"
    /\ resp.status = HTTP_CONFLICT
    /\ \E m1, m2 \in DOMAIN membros :
           m1 # m2 /\ membros[m1].ativo /\ membros[m2].ativo

C14_RoomReleased ==
    [][\A u \in Users, h \in RepublicaIds, m \in MembroIds :
         (/\ delete_member(u, h, m) /\ Dono(u, h)
          /\ m \in DOMAIN membros
          /\ membros[m].republica_id = h /\ membros[m].ativo
          /\ membros[m].quarto_id # NULL)
         => \A R \in {membros[m].quarto_id} :
                /\ \A x \in DOMAIN membros' : membros'[x].quarto_id # R
                /\ \A e \in Contacts, t \in Contacts :
                       ~ContatoEmUso(e, t, NULL)' =>
                           create_member_check(u, h, e, t, R)'.status
                               = HTTP_CREATED
                /\ \A x \in DOMAIN membros' \ {m} :
                       (membros'[x].republica_id = h /\ membros'[x].ativo)
                       => /\ update_member_check(u, h, x, membros[x].email,
                                  membros[x].telephone, R)'.status = HTTP_OK
                          /\ adicionar_membro_ao_quarto_check(u, R, x)'.status
                                 = HTTP_OK]_vars

\* C15: a successful Deactivate Member sets ativo = false, sets data_saida
\* and clears the room link of that member only; the member row still
\* exists, and the Payment rows and every expense are the same before and
\* after.
C15_SoftDeleteKeepsLedger ==
    [][\A u \in Users, h \in RepublicaIds, m \in MembroIds :
         (delete_member(u, h, m) /\ resp'.status = HTTP_OK)
         => /\ DOMAIN membros' = DOMAIN membros
            /\ m \in DOMAIN membros'
            /\ ~membros'[m].ativo
            /\ membros'[m].data_saida # NULL
            /\ membros'[m].quarto_id = NULL
            /\ membros'[m].email = membros[m].email
            /\ membros'[m].telephone = membros[m].telephone
            /\ membros'[m].republica_id = membros[m].republica_id
            /\ \A x \in DOMAIN membros \ {m} : membros'[x] = membros[x]
            /\ pagamentos' = pagamentos
            /\ despesas' = despesas
            /\ quartos' = quartos]_vars

\* C15 witness: Deactivate Member has just succeeded, a deactivated member
\* has a payment recorded and a room exists.
C15_Witness ==
    /\ resp.op = "delete_member"
    /\ resp.status = HTTP_OK
    /\ quartos # EmptyTable
    /\ \E p \in DOMAIN pagamentos : ~membros[pagamentos[p].membro_id].ativo

\* C16: once a Payment row exists, no operation deletes it or changes its
\* member, expense or amount.
C16_PaymentsDurable ==
    [][\A p \in DOMAIN pagamentos :
         p \in DOMAIN pagamentos' /\ pagamentos'[p] = pagamentos[p]]_vars

\* C17: an expense is created pending; the only status change is pending to
\* paid and only Register Payment makes it; no expense is ever overdue.
C17_StatusStateMachine ==
    [][\A d \in DOMAIN despesas' :
         /\ despesas'[d].status # VENCIDA
         /\ d \notin DOMAIN despesas =>
                despesas'[d].status = PENDENTE /\ resp'.op = "create_despesa"
         /\ (d \in DOMAIN despesas /\ despesas'[d].status # despesas[d].status)
            => /\ despesas[d].status = PENDENTE
               /\ despesas'[d].status = PAGO
               /\ resp'.op = "registrar_pagamento"
               /\ resp'.status = HTTP_CREATED]_vars

\* C17 witness: update_despesa has just succeeded on a paid expense.
C17_Witness ==
    /\ resp.op = "update_despesa"
    /\ resp.status = HTTP_OK
    /\ \E d \in DOMAIN despesas : despesas[d].status = PAGO

\* C18: Deactivate Member fails with NotFound and changes nothing when the
\* member does not exist in the house or is already deactivated.
C18_DeactivateTwiceNotFound ==
    [][\A u \in Users, h \in RepublicaIds, m \in MembroIds :
         (/\ delete_member(u, h, m) /\ Dono(u, h)
          /\ \/ m \notin DOMAIN membros
             \/ membros[m].republica_id # h
             \/ ~membros[m].ativo)
         => Kind(resp') = "NotFound" /\ membros' = membros]_vars

\* C19: delete_quarto by the owner on a room of the house fails with
\* Conflict and changes neither room nor member while any member is linked
\* to the room; once no member is linked to it (vacated, moved away or
\* deactivated) it succeeds and the room is no longer found.
C19_DeleteBlockedWhileOccupied ==
    [][\A u \in Users, h \in RepublicaIds, q \in QuartoIds :
         (/\ delete_quarto(u, h, q) /\ Dono(u, h)
          /\ q \in DOMAIN quartos /\ quartos[q].republica_id = h)
         => IF \E m \in DOMAIN membros : membros[m].quarto_id = q
            THEN /\ Kind(resp') = "Conflict"
                 /\ quartos' = quartos /\ membros' = membros
            ELSE /\ resp'.status = HTTP_OK
                 /\ q \notin DOMAIN quartos'
                 /\ quarto_check(u, h, q)'.status = HTTP_NOT_FOUND
                 /\ membros' = membros]_vars

\* C19 witness: delete_quarto has just succeeded, no room is left and a
\* member has been deactivated.
C19_Witness ==
    /\ resp.op = "delete_quarto"
    /\ resp.status = HTTP_OK
    /\ DOMAIN quartos = {}
    /\ \E m \in DOMAIN membros : ~membros[m].ativo

\* C20: update_quarto and delete_quarto never change or delete a room of a
\* house the caller does not own, whatever republica_id they are called with.
C20_HouseIsolation ==
    [][\A u \in Users, h \in RepublicaIds, q \in QuartoIds, n \in Numeros :
         (/\ update_quarto(u, h, q, n) \/ delete_quarto(u, h, q)
          /\ q \in DOMAIN quartos
          /\ republicas[quartos[q].republica_id].user_id # u)
         => quartos' = quartos]_vars

\* C21: whenever Create Member, update_member, adicionar_membro_ao_quarto,
\* desocupar or remover_membro_do_quarto returns an error, the members, the
\* rooms and every member's fields are as before the call.
MemberOps ==
    {"create_member", "update_member", "adicionar_membro_ao_quarto",
     "desocupar_membro_do_quarto", "remover_membro_do_quarto"}

C22_ListMembers ==
    [][\A u \in Users, h \in RepublicaIds, limit \in Paginas,
         offset \in Paginas, incluir_inativos \in BOOLEAN :
         (/\ read_members(u, h, limit, offset, incluir_inativos)
          /\ resp'.status = HTTP_OK)
         => LET items == resp'.members
                ids == {items[i].id : i \in DOMAIN items}
                todos == {m \in DOMAIN membros :
                            /\ membros[m].republica_id = h
                            /\ incluir_inativos \/ membros[m].ativo}
            IN  /\ ids \subseteq todos
                /\ Len(items) <= limit
                /\ (offset = 0 /\ limit >= Cardinality(todos)) => ids = todos
                /\ \A i \in DOMAIN items :
                       /\ items[i].ativo = membros[items[i].id].ativo
                       /\ items[i].data_saida = membros[items[i].id].data_saida
                       /\ ~items[i].ativo => items[i].data_saida # NULL]_vars

\* C22 witness: a listing has just returned a deactivated member next to an
\* active one.
C22_Witness ==
    /\ resp.op = "read_members"
    /\ resp.status = HTTP_OK
    /\ \E i, j \in DOMAIN resp.members :
          resp.members[i].ativo /\ ~resp.members[j].ativo

\* C23: a password-reset code is single-use. verify-code succeeds only when
\* the submitted code equals the code stored for that email; a successful
\* verify-code deletes the stored code, a failed one answers 'Invalid or
\* expired code.' and leaves the store alone, and only forgot-password puts a
\* code in the store: so every later verify-code with the same email and
\* code fails until forgot-password issues a new code.
C23_ResetCodeSingleUse ==
    [][/\ \A email \in Emails, code \in Codes :
             (verify_code(email, code) /\ redis.client)
             => IF email \in DOMAIN redis.codes /\ redis.codes[email] = code
                THEN /\ resp'.status = HTTP_OK
                     /\ email \notin DOMAIN redis'.codes
                     /\ \A c \in Codes :
                           verify_code_response(email, c)'.status
                               = HTTP_BAD_REQUEST
                ELSE /\ resp'.status = HTTP_BAD_REQUEST
                     /\ resp'.detail = "Invalid or expired code."
                     /\ redis' = redis
       /\ \A email \in Emails :
             (/\ email \in DOMAIN redis'.codes
              /\ email \in DOMAIN redis.codes => redis'.codes[email] # redis.codes[email])
             => resp'.op = "forgot_password"]_vars

\* C23 witness: a verify-code has just succeeded and the code it matched is
\* gone from the store.
C23_Witness ==
    /\ resp.op = "verify_code"
    /\ resp.status = HTTP_OK
    /\ resp.reset_token.sub \notin DOMAIN redis.codes

\* C24: reset-password changes a user's password only when called with an
\* unexpired token whose scope is reset_password and whose subject is that
\* user's email, and only to a strong password; a login token (no reset
\* scope), an invalid token or no token gets 401 and a weak password is
\* rejected, each with every user's password unchanged.
C24_ResetNeedsResetToken ==
    [][/\ \A token \in Tokens, new_password \in Senhas :
             reset_password(token, new_password)
             => /\ \A u \in DOMAIN users :
                      users'[u] # users[u]
                      => /\ token.kind = "jwt"
                         /\ ~token.expired
                         /\ token.scope = "reset_password"
                         /\ token.sub = users[u].email
                         /\ verify_strong_password(new_password)
                         /\ users'[u] = [users[u] EXCEPT !.password =
                                           get_password_hash(new_password)]
                         /\ resp'.status = HTTP_OK
                /\ (token.kind # "jwt" \/ token.scope # "reset_password")
                   => resp'.status = HTTP_UNAUTHORIZED /\ users' = users
                /\ ~verify_strong_password(new_password)
                   => /\ resp'.status \in
                           {HTTP_UNAUTHORIZED, HTTP_UNPROCESSABLE_CONTENT}
                      /\ users' = users
                /\ resp'.status = HTTP_OK
                   => users'[user_by_email(token.sub)].password
                          = get_password_hash(new_password)
       /\ users' # users => resp'.op = "reset_password"]_vars

\* C24 witness: a reset-password has just succeeded and a user's password is
\* no longer the one the user registered with.
C24_Witness ==
    /\ resp.op = "reset_password"
    /\ resp.status = HTTP_OK
    /\ \E u \in DOMAIN users :
          users[u].password # get_password_hash(SenhaInicial)

\* C25: forgot-password does not reveal whether an email is registered: the
\* answer to a request is the answer the same request would have got for
\* any other email, registered or not, whatever the outcome of storing the
\* code and of sending the email, and with the cache up it is 200 with the
\* same message.
C25_ForgotPasswordUniform ==
    [][\A email \in Emails, other \in Emails, code \in Codes,
         outcome \in Outcomes :
         forgot_password(email, code, outcome)
         => /\ resp' = forgot_password_response(other, outcome)
            /\ redis.client => resp'.status = HTTP_OK]_vars

\* C26: in registrar_pagamento the share divisor is never zero: whenever the
\* checks on the expense, on the member existing and belonging to the house
\* and on the duplicate have passed, the member count read for the house is
\* at least 1, so no request is answered 'Republica nao tem membros
\* cadastrados' and every payment recorded is the total over a count >= 1.
C26_DivisorNeverZero ==
    [][\A u \in Users, h \in RepublicaIds, d \in DespesaIds, m \in MembroIds :
         registrar_pagamento(u, h, d, m)
         => /\ Kind(resp') # "InvalidState"
            /\ (/\ despesa_check(u, h, d).status = HTTP_OK
                /\ despesas[d].status # PAGO
                /\ m \in DOMAIN membros
                /\ membros[m].republica_id = h
                /\ ~pagamento_existente(m, d))
               => /\ num_membros(h) >= 1
                  /\ resp'.status = HTTP_CREATED
                  /\ pagamentos'[resp'.id].valor_pago =
                         Quot(despesas[d].valor_total, num_membros(h))]_vars

\* C26 witness: a payment has just been recorded for the only member row of
\* a house, and that member is deactivated.
C26_Witness ==
    /\ resp.op = "registrar_pagamento"
    /\ resp.status = HTTP_CREATED
    /\ LET m == pagamentos[resp.id].membro_id
       IN  ~membros[m].ativo /\ num_membros(membros[m].republica_id) = 1

\* C27: a paid expense receives no further payments: also when Register
\* Payment requests are interleaved with each other and with Create Member
\* and Deactivate Member, no Payment row is inserted for an expense whose
\* status is paid.
C27_PaidGetsNoPayment ==
    [][\A d \in DOMAIN despesas :
         despesas[d].status = PAGO
         => pagamentos_de(d)' \subseteq pagamentos_de(d)]_vars

\* C28: for every expense whose status is paid, the sum of its payments
\* equals its current total, also when members are created or deactivated,
\* or the total is changed by update_despesa, between two of its payments.
C28_PaidSumsToTotal ==
    \A d \in DOMAIN despesas :
        despesas[d].status = PAGO
        => RatSum([p \in pagamentos_de(d) |-> pagamentos[p].valor_pago],
                  pagamentos_de(d)) = <<despesas[d].valor_total, 1>>

\* C29: room links stay well-formed: whatever sequence of Create Member,
\* update_member, adicionar_membro_ao_quarto, desocupar,
\* remover_membro_do_quarto, Deactivate Member and delete_quarto has run,
\* each member's non-null room link refers to a room that exists and belongs
\* to the same house as the member.
C29_RoomLinksWellFormed ==
    \A m \in DOMAIN membros :
        membros[m].quarto_id # NULL
        => /\ membros[m].quarto_id \in DOMAIN quartos
           /\ quartos[membros[m].quarto_id].republica_id =
                  membros[m].republica_id

\* C29 witness: a member has just been transferred to another room while a
\* room of the other house exists.
C29_Witness ==
    /\ resp.op = "remover_membro_do_quarto"
    /\ resp.status = HTTP_OK
    /\ \E m \in DOMAIN membros, q \in DOMAIN quartos :
          /\ membros[m].quarto_id # NULL
          /\ quartos[q].republica_id # membros[m].republica_id

\* C30: concurrent settlement is not lost: when the members of a house who
\* have not yet paid a pending expense register their payments in requests
\* interleaved at the handler's reads and commits, then once no request is
\* in flight and every member of the house has a payment for the expense,
\* the expense is paid.
C30_ConcurrentSettlementKept ==
    (/\ \A s \in Slots : reqs[s].pc \in {"idle", "done"}
     /\ \E s \in Slots : reqs[s].pc = "done" /\ reqs[s].status = HTTP_CREATED
     /\ \A m \in DOMAIN membros :
           membros[m].republica_id = 1 => JaPagou(m, 1))
    => despesas[1].status = PAGO

\* C30 witness: two concurrent requests for different members have both
\* returned 201 and the expense is paid.
C30_Witness ==
    /\ \A s \in Slots : reqs[s].pc = "done" /\ reqs[s].status = HTTP_CREATED
    /\ reqs[1].args[4] # reqs[2].args[4]
    /\ despesas[1].status = PAGO

====
